---- MODULE Spec2Model ----
(***************************************************************************)
(* EPISCAN backend (src/backend/main.py): the health_reports table, the    *)
(* submit-report endpoint and the outbreak detection run behind /alerts.   *)
(*                                                                         *)
(* Time is counted in ticks, TicksPerDay ticks to a day.  A real number    *)
(* that the code holds as a float (mean, std_dev, z_score, risk) is held   *)
(* exactly, as a record [p, a, b] that stands for p * sqrt(a / b) with     *)
(* a, b > 0; a value the code rounds to d decimals is held as the integer  *)
(* number of 10^-d units.                                                  *)
(***************************************************************************)
EXTENDS Integers, Sequences, FiniteSets, TLC

VARIABLES
    clock,                  \* datetime.utcnow(), in ticks
    store,                  \* table health_reports, rows in table order
    pc,                     \* position of the detection run
    now,                    \* detect_outbreaks: now
    baseline_reports,       \* detect_outbreaks: baseline_response.data
    current_reports,        \* detect_outbreaks: current_response.data
    baseline_by_location,   \* detect_outbreaks: dict location -> date -> count
    current_by_location,    \* detect_outbreaks: dict location -> aggregate
    alerts,                 \* detect_outbreaks: alerts
    response,               \* what GET /alerts last answered
    submits,                \* number of submit-report calls so far
    prev                    \* history: inputs and result of the last finished run

vars == <<clock, store, pc, now, baseline_reports, current_reports,
          baseline_by_location, current_by_location, alerts, response,
          submits, prev>>

----------------------------------------------------------------------------
(* Bounds of the model *)

MaxSubmits == 1
MaxTicks == 1
MaxPerDay == 2
MaxExtra == 2
MaxSeedCurrent == 10

(* Program constants *)

TicksPerDay == 2
CURRENT_WINDOW_DAYS == 1
BASELINE_START_DAYS == 14
BASELINE_END_DAYS == 7
OUTBREAK_THRESHOLD_TENTHS == 20
HIGH_TENTHS == 35
MEDIUM_TENTHS == 25
RISK_FACTOR == 20
RISK_CAP == 100
TOP_SYMPTOMS == 3

Locations == {"Hostel A", "Hostel B"}
Users == {"u1", "u2"}
\* symptom lists of stored reports, and those a client submits while the model runs
SymptomLists == {<<>>, <<"fever">>, <<"cough", "fever">>,
                 <<"headache", "cough">>, <<"fatigue", "headache", "fever", "cough">>}
SubmittedLists == {<<>>, <<"fever", "cough">>}

----------------------------------------------------------------------------
(* Insertion-ordered dictionaries: a sequence of [key, value] entries. *)

DictHas(d, k) == \E i \in 1..Len(d) : d[i].key = k

DictGet(d, k) == d[CHOOSE i \in 1..Len(d) : d[i].key = k].value

DictSet(d, k, v) ==
    IF DictHas(d, k)
    THEN [i \in 1..Len(d) |-> IF d[i].key = k THEN [key |-> k, value |-> v] ELSE d[i]]
    ELSE Append(d, [key |-> k, value |-> v])

DictKeys(d) == [i \in 1..Len(d) |-> d[i].key]

DictValues(d) == [i \in 1..Len(d) |-> d[i].value]

Range(s) == {s[i] : i \in 1..Len(s)}

----------------------------------------------------------------------------
(* Exact arithmetic *)

RECURSIVE GCD(_, _)
GCD(m, n) == IF n = 0 THEN m ELSE GCD(n, m % n)

RECURSIVE SeqSum(_)
SeqSum(s) == IF s = <<>> THEN 0 ELSE s[1] + SeqSum(Tail(s))

RECURSIVE SeqSumSq(_)
SeqSumSq(s) == IF s = <<>> THEN 0 ELSE s[1] * s[1] + SeqSumSq(Tail(s))

\* the real p * sqrt(a / b), with a / b in lowest terms
Real(p, a, b) == LET g == GCD(a, b) IN [p |-> p, a |-> a \div g, b |-> b \div g]

Rational(n, d) == Real(n, 1, d * d)

RealLess(x, y) ==
    IF x.p < 0
    THEN y.p >= 0 \/ y.p * y.p * y.a * x.b < x.p * x.p * x.a * y.b
    ELSE y.p > 0 /\ x.p * x.p * x.a * y.b < y.p * y.p * y.a * x.b

RealEq(x, y) == ~RealLess(x, y) /\ ~RealLess(y, x)

RealMin(x, y) == IF RealLess(y, x) THEN y ELSE x

RealScale(x, m) == [p |-> x.p * m, a |-> x.a, b |-> x.b]

\* largest r in lo..hi with r * r <= n, given lo * lo <= n
RECURSIVE IntSqrtIn(_, _, _)
IntSqrtIn(n, lo, hi) ==
    IF lo >= hi THEN lo
    ELSE LET mid == (lo + hi + 1) \div 2
         IN IF mid * mid <= n THEN IntSqrtIn(n, mid, hi) ELSE IntSqrtIn(n, lo, mid - 1)

IntSqrt(n) == IntSqrtIn(n, 0, 46340)

\* floor(m * n / d) and whether m * n / d is an integer, without forming m * n
FloorMulDiv(m, n, d) == m * (n \div d) + (m * (n % d)) \div d

DividesMul(m, n, d) == (m * (n % d)) % d = 0

\* Python round(x, digits) for x >= 0, in units of 10^-digits (scale = 10^digits):
\* the nearest integer to scale * x, an exact half going to the even neighbour
PyRound(x, scale) ==
    LET n == x.p * x.p * x.a                             \* x^2 = n / x.b
        four == 4 * scale * scale
        m == IntSqrt(FloorMulDiv(four, n, x.b))          \* floor(2 * scale * x)
        k == (m + 1) \div 2
        tie == /\ DividesMul(four, n, x.b)
               /\ m * m = FloorMulDiv(four, n, x.b)
               /\ m % 2 = 1
    IN IF tie /\ k % 2 = 1 THEN k - 1 ELSE k

----------------------------------------------------------------------------
(* statistics.mean, statistics.stdev and the z-score (main.py 282-316) *)

\* statistics.mean(daily_counts)
Mean(daily_counts) == Rational(SeqSum(daily_counts), Len(daily_counts))

\* the square of statistics.stdev(daily_counts), as [num, den]:
\* sum((x - mean)^2) / (n - 1) = (n * sum(x^2) - sum(x)^2) / (n * (n - 1))
SampleVariance(daily_counts) ==
    LET n == Len(daily_counts)
        s == SeqSum(daily_counts)
    IN [num |-> n * SeqSumSq(daily_counts) - s * s, den |-> n * (n - 1)]

\* statistics.stdev(daily_counts)
Stdev(daily_counts) ==
    LET v == SampleVariance(daily_counts) IN Real(1, v.num, v.den)

\* mutant: a zero deviation is clamped to a smaller floor, 0.5
StdDevHalf(daily_counts) ==
    LET std_dev == Stdev(daily_counts)
    IN IF std_dev.a = 0 THEN Rational(1, 2) ELSE std_dev

\* lines 291-296: std_dev, with the clamp of a zero deviation to 1.0
StdDev(daily_counts) ==
    LET std_dev == Stdev(daily_counts)
    IN IF std_dev.a = 0 THEN Rational(1, 1) ELSE std_dev

\* mutant: the operands of the subtraction are swapped, (mean - current_count) / std_dev
ZScoreSwapped(current_count, daily_counts) ==
    LET n == Len(daily_counts)
        sd == StdDev(daily_counts)
    IN Real(SeqSum(daily_counts) - current_count * n, sd.b, n * n * sd.a)

\* line 316: z_score = (current_count - mean) / std_dev
ZScore(current_count, daily_counts) ==
    LET n == Len(daily_counts)
        sd == StdDev(daily_counts)
    IN Real(current_count * n - SeqSum(daily_counts), sd.b, n * n * sd.a)

Tenths(t) == Rational(t, 10)

\* mutant: the threshold itself raises an alert (>= for >)
IsOutbreakInclusive(z_score) == ~RealLess(z_score, Tenths(OUTBREAK_THRESHOLD_TENTHS))

\* line 327: z_score > OUTBREAK_THRESHOLD
IsOutbreak(z_score) == RealLess(Tenths(OUTBREAK_THRESHOLD_TENTHS), z_score)

\* mutant: the cap at 100 is forgotten
RiskUncapped(z_score) == RealScale(z_score, RISK_FACTOR)

\* line 335: min(z_score * 20, 100)
RiskPercentage(z_score) == RealMin(RealScale(z_score, RISK_FACTOR), Rational(RISK_CAP, 1))

\* mutant: the band edges belong to the higher band (>= for >)
SeverityInclusive(z_score) ==
    IF ~RealLess(z_score, Tenths(HIGH_TENTHS)) THEN "High"
    ELSE IF ~RealLess(z_score, Tenths(MEDIUM_TENTHS)) THEN "Medium"
    ELSE "Low"

\* lines 342-347
Severity(z_score) ==
    IF RealLess(Tenths(HIGH_TENTHS), z_score) THEN "High"
    ELSE IF RealLess(Tenths(MEDIUM_TENTHS), z_score) THEN "Medium"
    ELSE "Low"

----------------------------------------------------------------------------
(* The store's range reads (main.py 201-218) *)

Ticks(days) == days * TicksPerDay

\* report["created_at"][:10]: the calendar date of a timestamp
DateOf(created_at) == created_at \div TicksPerDay

\* lines 201-205: created_at >= baseline_start and created_at < baseline_end
BaselineQuery(rows, t) ==
    SelectSeq(rows, LAMBDA r : /\ r.created_at >= t - Ticks(BASELINE_START_DAYS)
                               /\ r.created_at < t - Ticks(BASELINE_END_DAYS))

\* lines 214-216: created_at >= current_window_start, and no upper bound
CurrentQuery(rows, t) ==
    SelectSeq(rows, LAMBDA r : r.created_at >= t - Ticks(CURRENT_WINDOW_DAYS))

----------------------------------------------------------------------------
(* Aggregation (main.py 223-251) *)

\* lines 226-235, for one report
AddBaseline(by_location, report) ==
    LET days == IF DictHas(by_location, report.location)
                THEN DictGet(by_location, report.location) ELSE <<>>
        date == DateOf(report.created_at)
        count == IF DictHas(days, date) THEN DictGet(days, date) ELSE 0
    IN DictSet(by_location, report.location, DictSet(days, date, count + 1))

\* lines 224-235
RECURSIVE GroupBaseline(_)
GroupBaseline(reports) ==
    IF reports = <<>> THEN <<>>
    ELSE AddBaseline(GroupBaseline(SubSeq(reports, 1, Len(reports) - 1)),
                     reports[Len(reports)])

EmptyAggregate == [count |-> 0, symptoms |-> <<>>, user_ids |-> <<>>]

\* line 250, report.get("symptoms", []): a row holds its symptoms as a list, as null,
\* or not at all (symptoms_is). The default stands in for a missing key only: a null
\* column comes back as None
SymptomsIsNone(report) == report.symptoms_is = "null"

GetSymptoms(report) ==
    IF report.symptoms_is = "absent" THEN <<>> ELSE report.symptoms

\* lines 240-249, for one report: the entry is made and the report is counted
AddCount(by_location, report) ==
    LET data == IF DictHas(by_location, report.location)
                THEN DictGet(by_location, report.location) ELSE EmptyAggregate
    IN DictSet(by_location, report.location,
               [count |-> data.count + 1,
                symptoms |-> data.symptoms,
                user_ids |-> data.user_ids])

\* lines 240-251, for one report whose symptoms are not None
AddCurrent(by_location, report) ==
    LET data == IF DictHas(by_location, report.location)
                THEN DictGet(by_location, report.location) ELSE EmptyAggregate
    IN DictSet(by_location, report.location,
               [count |-> data.count + 1,
                symptoms |-> data.symptoms \o GetSymptoms(report),
                user_ids |-> Append(data.user_ids, report.user_id)])

\* lines 238-251
RECURSIVE GroupCurrent(_)
GroupCurrent(reports) ==
    IF reports = <<>> THEN <<>>
    ELSE AddCurrent(GroupCurrent(SubSeq(reports, 1, Len(reports) - 1)),
                    reports[Len(reports)])

\* mutant: a location without history is given one report a day
OneADay == <<1, 1, 1, 1, 1, 1, 1>>

\* lines 267-275: the baseline daily counts of a location
NoHistory == <<0, 0, 0, 0, 0, 0, 0>>

TooFewDays == <<0, 0>>

\* mutant: a single day of history is kept and padded with one zero
DailyCountsPadded(by_location, location) ==
    LET daily_counts == IF DictHas(by_location, location)
                        THEN DictValues(DictGet(by_location, location))
                        ELSE NoHistory
    IN IF Len(daily_counts) < 2 THEN daily_counts \o <<0>> ELSE daily_counts

DailyCounts(by_location, location) ==
    LET daily_counts == IF DictHas(by_location, location)
                        THEN DictValues(DictGet(by_location, location))
                        ELSE NoHistory
    IN IF Len(daily_counts) < 2 THEN TooFewDays ELSE daily_counts

----------------------------------------------------------------------------
(* Alert assembly (main.py 327-376) *)

\* lines 350-352
RECURSIVE SymptomCounts(_)
SymptomCounts(symptoms) ==
    IF symptoms = <<>> THEN <<>>
    ELSE LET counts == SymptomCounts(SubSeq(symptoms, 1, Len(symptoms) - 1))
             symptom == symptoms[Len(symptoms)]
         IN DictSet(counts, symptom,
                    (IF DictHas(counts, symptom) THEN DictGet(counts, symptom) ELSE 0) + 1)

\* mutant: an unstable sort, equal counts come out in reverse order of appearance
InsertBeforeEqual(sorted, e) ==
    LET n == Cardinality({i \in 1..Len(sorted) : sorted[i].value > e.value})
    IN SubSeq(sorted, 1, n) \o <<e>> \o SubSeq(sorted, n + 1, Len(sorted))

\* sorted(items, key=value, reverse=True): entry e goes behind every entry already
\* placed whose value is at least its own (the sort is stable)
InsertDescending(sorted, e) ==
    LET n == Cardinality({i \in 1..Len(sorted) : sorted[i].value >= e.value})
    IN SubSeq(sorted, 1, n) \o <<e>> \o SubSeq(sorted, n + 1, Len(sorted))

RECURSIVE SortedByCount(_)
SortedByCount(items) ==
    IF items = <<>> THEN <<>>
    ELSE InsertDescending(SortedByCount(SubSeq(items, 1, Len(items) - 1)),
                          items[Len(items)])

\* common_symptoms[:3]
FirstN(s, n) == SubSeq(s, 1, IF Len(s) < n THEN Len(s) ELSE n)

\* lines 355-356
TopSymptoms(symptoms) ==
    DictKeys(FirstN(SortedByCount(SymptomCounts(symptoms)), TOP_SYMPTOMS))

\* mutant: the user ids are counted without deduplication
CountStudents(user_ids) == Len(user_ids)

\* line 359: len(set(user_ids))
UniqueStudents(user_ids) == Cardinality(Range(user_ids))

\* lines 362-376
MakeAlert(location, current_data, daily_counts, t) ==
    LET z_score == ZScore(current_data.count, daily_counts)
    IN [location |-> location,
        affected_students |-> UniqueStudents(current_data.user_ids),
        risk_score |-> PyRound(RiskPercentage(z_score), 10),
        severity |-> Severity(z_score),
        common_symptoms |-> TopSymptoms(current_data.symptoms),
        detection_time |-> t,
        debug |-> [baseline_mean |-> PyRound(Mean(daily_counts), 100),
                   baseline_std_dev |-> PyRound(StdDev(daily_counts), 100),
                   current_count |-> current_data.count,
                   z_score |-> PyRound(z_score, 100)]]

\* mutant: the list of alerts outlives the call (a module-level list) and starts as
\* the last run left it
StaleAlerts == IF prev = <<>> THEN <<>> ELSE prev[1].alerts

\* line 261: alerts = []
NoAlerts == <<>>

\* lines 263-376: the loop over current_by_location.items()
RECURSIVE ScoreLocations(_, _, _, _)
ScoreLocations(current, baseline, t, acc) ==
    IF current = <<>> THEN acc
    ELSE LET location == current[1].key
             current_data == current[1].value
             daily_counts == DailyCounts(baseline, location)
             z_score == ZScore(current_data.count, daily_counts)
         IN ScoreLocations(Tail(current), baseline, t,
                IF IsOutbreak(z_score)
                THEN Append(acc, MakeAlert(location, current_data, daily_counts, t))
                ELSE acc)

----------------------------------------------------------------------------
(* Stored reports *)

Report(location, created_at, symptoms, user_id) ==
    [location |-> location, created_at |-> created_at,
     symptoms |-> symptoms, symptoms_is |-> "list", user_id |-> user_id]

\* a row written without a symptom list: the column is null, or the key is missing
\* from the row the store returns
ReportWithout(location, created_at, symptoms_is, user_id) ==
    [location |-> location, created_at |-> created_at,
     symptoms |-> <<>>, symptoms_is |-> symptoms_is, user_id |-> user_id]

\* the wall clock when the model starts: late enough for a full baseline window
Start == Ticks(BASELINE_START_DAYS)

RECURSIVE Repeat(_, _)
Repeat(x, n) == IF n = 0 THEN <<>> ELSE <<x>> \o Repeat(x, n - 1)

RECURSIVE Flatten(_)
Flatten(ss) == IF ss = <<>> THEN <<>> ELSE ss[1] \o Flatten(Tail(ss))

\* the instant at which the history of baseline day d (0, 1, ...) was recorded: the
\* last tick of day d, and for the day at the window's end its first tick
HistoryInstant(d) ==
    IF d < BASELINE_END_DAYS THEN Ticks(d) + TicksPerDay - 1 ELSE Ticks(d)

\* history as generate_baseline_data writes it: one instant per day and one user;
\* `days` days of `per_day` reports each, and `extra` more on the first of them
History(location, days, per_day, extra) ==
    Flatten([d \in 1..days |->
        Repeat(Report(location, HistoryInstant(d - 1), <<"fatigue">>, "u1"),
               per_day + (IF d = 1 THEN extra ELSE 0))])

\* n reports of the last day before t, by alternating users
Recent(location, n, t) ==
    [i \in 1..n |-> Report(location, t - 1, <<"fever">>,
                           IF i % 2 = 1 THEN "u1" ELSE "u2")]

NoRun == <<>>

NoResponse == [status |-> 0, body |-> <<>>]

InitRun ==
    /\ pc = "idle"
    /\ now = 0
    /\ baseline_reports = <<>>
    /\ current_reports = <<>>
    /\ baseline_by_location = <<>>
    /\ current_by_location = <<>>
    /\ alerts = <<>>
    /\ response = NoResponse
    /\ submits = 0
    /\ prev = NoRun

\* a store with a little history and a few reports around the edge of the current
\* window, open to further submissions
Init ==
    /\ clock = Start
    /\ \/ \E days \in {0, BASELINE_END_DAYS}, m \in {0, 3}, n \in 0..2 :
             store = History("Hostel A", days, 1, 0)
                     \o Recent("Hostel A", m, Start)
                     \o <<Report("Hostel B", Start - Ticks(CURRENT_WINDOW_DAYS) - 1, <<"cough">>, "u2"),
                          Report("Hostel B", Start - Ticks(CURRENT_WINDOW_DAYS), <<"cough">>, "u2")>>
                     \o Recent("Hostel B", n, Start)
       \/ store = <<ReportWithout("Hostel B", Start - 1, "null", "u2")>>
    /\ InitRun

\* stores for the scoring pipeline: every history shape against every current count
InitCounts ==
    /\ clock \in Start..(Start + MaxTicks)
    /\ \E days \in 0..(BASELINE_END_DAYS + 1), per_day \in 1..MaxPerDay,
          extra \in 0..MaxExtra, n \in 0..MaxSeedCurrent :
          store = History("Hostel A", days, per_day, extra) \o Recent("Hostel A", n, clock)
    /\ InitRun

\* stores for the alert assembly: two locations without history, three reports
\* each, those of Hostel B by any users with any symptom lists
InitSymptoms ==
    /\ clock \in Start..(Start + MaxTicks)
    /\ \E u \in [1..3 -> Users], s \in [1..3 -> SymptomLists] :
          store = Flatten([i \in 1..3 |->
                      <<Report("Hostel B", clock - 1, s[i], u[i]),
                        Report("Hostel A", clock - 1, <<"fever">>, "u1")>>])
    /\ InitRun

\* stores for missing symptom data: three reports of Hostel B, each with a symptom,
\* with an empty list, with a null column or without the key
RowShapes == {"fever", "empty", "null", "absent"}

ShapedReport(location, created_at, shape, user_id) ==
    IF shape = "fever" THEN Report(location, created_at, <<"fever">>, user_id)
    ELSE IF shape = "empty" THEN Report(location, created_at, <<>>, user_id)
    ELSE ReportWithout(location, created_at, shape, user_id)

InitMissing ==
    /\ clock \in Start..(Start + MaxTicks)
    /\ \E shape \in [1..3 -> RowShapes] :
          store = [i \in 1..3 |->
                      ShapedReport("Hostel B", clock - 1, shape[i],
                                   IF i = 3 THEN "u2" ELSE "u1")]
    /\ InitRun

InitScore == InitCounts \/ InitSymptoms \/ InitMissing

----------------------------------------------------------------------------
(* Actions *)

run_vars == <<pc, now, baseline_reports, current_reports, baseline_by_location,
              current_by_location, alerts, response, prev>>

\* the wall clock advances
Tick ==
    /\ clock < Start + MaxTicks
    /\ clock' = clock + 1
    /\ UNCHANGED <<store, submits>>
    /\ UNCHANGED run_vars

\* POST /submit-report (lines 119-127): one row, stamped with the clock
SubmitReport(user_id, symptoms, location) ==
    /\ submits < MaxSubmits
    /\ store' = Append(store, Report(location, clock, symptoms, user_id))
    /\ submits' = submits + 1
    /\ UNCHANGED clock
    /\ UNCHANGED run_vars

\* GET /alerts enters detect_outbreaks (lines 191-194): now is taken. The clock is
\* read strictly after every earlier reading of it, so a row that is already stored
\* carries an earlier stamp
TakeNow ==
    /\ pc = "idle"
    /\ \A i \in 1..Len(store) : store[i].created_at < clock
    /\ now' = clock
    /\ pc' = "read_baseline"
    /\ UNCHANGED <<clock, store, submits, baseline_reports, current_reports,
                   baseline_by_location, current_by_location, alerts, response, prev>>

\* lines 201-207
ReadBaseline ==
    /\ pc = "read_baseline"
    /\ baseline_reports' = BaselineQuery(store, now)
    /\ pc' = "read_current"
    /\ UNCHANGED <<clock, store, submits, now, current_reports, baseline_by_location,
                   current_by_location, alerts, response, prev>>

\* lines 214-218
ReadCurrent ==
    /\ pc = "read_current"
    /\ current_reports' = CurrentQuery(store, now)
    /\ pc' = "compute"
    /\ UNCHANGED <<clock, store, submits, now, baseline_reports, baseline_by_location,
                   current_by_location, alerts, response, prev>>

\* either read raises (the store is unavailable): the exception leaves
\* detect_outbreaks
ReadFails ==
    /\ pc \in {"read_baseline", "read_current"}
    /\ pc' = "failed"
    /\ UNCHANGED <<clock, store, submits, now, baseline_reports, current_reports,
                   baseline_by_location, current_by_location, alerts, response,
                   prev>>

\* lines 223-250: the current read returned a row whose symptoms are None, and
\* list.extend(None) raises TypeError at the first such row, after the row is counted
ExtendRaises ==
    /\ pc = "compute"
    /\ \E i \in 1..Len(current_reports) :
          /\ SymptomsIsNone(current_reports[i])
          /\ \A j \in 1..(i - 1) : ~SymptomsIsNone(current_reports[j])
          /\ current_by_location' =
                 AddCount(GroupCurrent(SubSeq(current_reports, 1, i - 1)),
                          current_reports[i])
    /\ baseline_by_location' = GroupBaseline(baseline_reports)
    /\ pc' = "type_error"
    /\ UNCHANGED <<clock, store, submits, now, baseline_reports, current_reports,
                   alerts, response, prev>>

\* lines 223-378: aggregation, scoring and alert assembly
Compute ==
    /\ pc = "compute"
    /\ \A i \in 1..Len(current_reports) : ~SymptomsIsNone(current_reports[i])
    /\ baseline_by_location' = GroupBaseline(baseline_reports)
    /\ current_by_location' = GroupCurrent(current_reports)
    /\ alerts' = ScoreLocations(current_by_location', baseline_by_location', now, NoAlerts)
    /\ pc' = "done"
    /\ UNCHANGED <<clock, store, submits, now, baseline_reports, current_reports,
                   response, prev>>

\* response_model=List[OutbreakAlert]: the fields of the schema, without _debug
OutbreakAlert(alert) ==
    [location |-> alert.location,
     affected_students |-> alert.affected_students,
     risk_score |-> alert.risk_score,
     severity |-> alert.severity,
     common_symptoms |-> alert.common_symptoms,
     detection_time |-> alert.detection_time]

LeaveRun ==
    /\ pc' = "idle"
    /\ now' = 0
    /\ baseline_reports' = <<>>
    /\ current_reports' = <<>>
    /\ baseline_by_location' = <<>>
    /\ current_by_location' = <<>>
    /\ alerts' = <<>>
    /\ UNCHANGED <<clock, store, submits>>

\* lines 411-412: the alerts are returned to the client
ReturnAlerts ==
    /\ pc = "done"
    /\ response' = [status |-> 200,
                    body |-> [i \in 1..Len(alerts) |-> OutbreakAlert(alerts[i])]]
    /\ prev' = <<[now |-> now, baseline_reports |-> baseline_reports,
                  current_reports |-> current_reports, alerts |-> alerts]>>
    /\ LeaveRun

\* mutant: the exception is swallowed and the client is given an empty alert list
ReturnEmpty ==
    /\ pc \in {"failed", "type_error"}
    /\ response' = [status |-> 200, body |-> <<>>]
    /\ UNCHANGED prev
    /\ LeaveRun

\* lines 414-418: any exception becomes HTTP 500
ReturnError ==
    /\ pc \in {"failed", "type_error"}
    /\ response' = [status |-> 500, body |-> <<>>]
    /\ UNCHANGED prev
    /\ LeaveRun

Detect ==
    \/ TakeNow
    \/ ReadBaseline
    \/ ReadCurrent
    \/ Compute
    \/ ReturnAlerts

Next ==
    \/ Tick
    \/ \E user_id \in Users, symptoms \in SubmittedLists, location \in Locations :
          SubmitReport(user_id, symptoms, location)
    \/ Detect
    \/ ReadFails
    \/ ExtendRaises
    \/ ReturnError

Spec == Init /\ [][Next]_vars

\* the detection run alone, on a store nobody writes to and that answers every read
NextScore ==
    \/ Detect
    \/ ExtendRaises
    \/ ReturnError

SpecScore == InitScore /\ [][NextScore]_vars

----------------------------------------------------------------------------
(* What a finished run has computed, read off the run's own variables *)

Done == pc = "done"

CurrentLocations == {current_by_location[i].key : i \in 1..Len(current_by_location)}

CountAt(location) == DictGet(current_by_location, location).count

DailyCountsAt(location) == DailyCounts(baseline_by_location, location)

ZScoreAt(location) == ZScore(CountAt(location), DailyCountsAt(location))

AlertsAt(location) == {i \in 1..Len(alerts) : alerts[i].location = location}

AllEqual(s) == \A i, j \in 1..Len(s) : s[i] = s[j]

RealLeq(x, y) == ~RealLess(y, x)

----------------------------------------------------------------------------
(* C1: in every finished run, each location of the current-window aggregate has an
   alert exactly when its z_score is strictly greater than 2.0 (none at exactly 2.0
   or below), no location has more than one alert, and every alert is for a
   location of the aggregate. *)
C1_AlertIffAboveThreshold ==
    Done =>
        /\ \A location \in CurrentLocations :
              Cardinality(AlertsAt(location)) =
                  IF RealLess(Rational(2, 1), ZScoreAt(location)) THEN 1 ELSE 0
        /\ \A i \in 1..Len(alerts) : alerts[i].location \in CurrentLocations

\* a finished run with a location whose z_score is exactly 2.0, without an alert,
\* and with no alert at all
C1_Witness ==
    /\ Done
    /\ \E location \in CurrentLocations :
          /\ RealEq(ZScoreAt(location), Rational(2, 1))
          /\ AlertsAt(location) = {}

----------------------------------------------------------------------------
(* The reports of the store that lie in the half-open window [t - 24h, t) *)

InCurrentWindow(location, t) ==
    SelectSeq(store, LAMBDA r : /\ r.location = location
                                /\ t - Ticks(CURRENT_WINDOW_DAYS) <= r.created_at
                                /\ r.created_at < t)

(* C2: a finished run that took the instant `now` has counted a stored report
   exactly when now - 24h <= created_at < now: the count, the symptoms and the user
   ids of every location are those of the store's reports in that half-open window,
   and a report stamped now or later (one submitted while the run was under way)
   is in none of them. *)
C2_CurrentWindowHalfOpen ==
    Done =>
        \A location \in Locations :
            LET counted == InCurrentWindow(location, now)
            IN IF counted = <<>>
               THEN location \notin CurrentLocations
               ELSE /\ location \in CurrentLocations
                    /\ CountAt(location) = Len(counted)
                    /\ DictGet(current_by_location, location).user_ids =
                           [i \in 1..Len(counted) |-> counted[i].user_id]
                    /\ DictGet(current_by_location, location).symptoms =
                           Flatten([i \in 1..Len(counted) |-> counted[i].symptoms])

----------------------------------------------------------------------------
(* C3: every alert's severity is the band of its location's z_score: High above
   3.5, Medium above 2.5 up to and including 3.5, Low above 2.0 up to and including
   2.5, and nothing else. *)
C3_SeverityBands ==
    Done =>
        \A i \in 1..Len(alerts) :
            LET z == ZScoreAt(alerts[i].location)
                severity == alerts[i].severity
            IN /\ severity \in {"Low", "Medium", "High"}
               /\ severity = "High" <=> RealLess(Rational(7, 2), z)
               /\ severity = "Medium" <=>
                      RealLess(Rational(5, 2), z) /\ RealLeq(z, Rational(7, 2))
               /\ severity = "Low" <=>
                      RealLess(Rational(2, 1), z) /\ RealLeq(z, Rational(5, 2))

\* an alert whose z_score is exactly 3.5, of severity Medium
C3_Witness ==
    /\ Done
    /\ \E i \in 1..Len(alerts) :
          /\ RealEq(ZScoreAt(alerts[i].location), Rational(7, 2))
          /\ alerts[i].severity = "Medium"

----------------------------------------------------------------------------
(* C4: every alert's risk_score (held in tenths) is min(z_score * 20, 100) rounded
   to one decimal: within half a tenth of it, above 40 before rounding, inside
   [0, 100], exactly 100 from z_score 5 on, and inside the band of the alert's
   severity: High at least 70, Medium in [50, 70], Low in [40, 50]. *)
C4_RiskScore ==
    Done =>
        \A i \in 1..Len(alerts) :
            LET z == ZScoreAt(alerts[i].location)
                risk == alerts[i].risk_score
                capped == RealLeq(Rational(5, 1), z)
                exact == IF capped THEN Rational(100, 1) ELSE RealScale(z, 20)
            IN /\ RealLeq(Rational(2 * risk - 1, 20), exact)
               /\ RealLeq(exact, Rational(2 * risk + 1, 20))
               /\ RealLess(Rational(40, 1), exact)
               /\ 0 <= risk /\ risk <= 1000
               /\ capped => risk = 1000
               /\ alerts[i].severity = "High" => risk >= 700
               /\ alerts[i].severity = "Medium" => 500 <= risk /\ risk <= 700
               /\ alerts[i].severity = "Low" => 400 <= risk /\ risk <= 500

\* an alert whose z_score is 5 or more, with risk_score 100.0
C4_Witness ==
    /\ Done
    /\ \E i \in 1..Len(alerts) :
          /\ RealLeq(Rational(5, 1), ZScoreAt(alerts[i].location))
          /\ alerts[i].risk_score = 1000

----------------------------------------------------------------------------
(* C5: a location with current-window reports and no baseline-window report is
   scored against seven zeros: mean 0, std_dev clamped to 1.0, z_score equal to
   its current count; with 1 or 2 reports it has no alert, with 3 an alert of
   severity Medium and risk_score 60.0, with 5 or more an alert of severity High
   and risk_score 100.0. *)
C5_NoHistory ==
    Done =>
        \A location \in CurrentLocations :
            ~DictHas(baseline_by_location, location) =>
                LET n == CountAt(location)
                    daily_counts == DailyCountsAt(location)
                IN /\ daily_counts = <<0, 0, 0, 0, 0, 0, 0>>
                   /\ RealEq(Mean(daily_counts), Rational(0, 1))
                   /\ RealEq(StdDev(daily_counts), Rational(1, 1))
                   /\ RealEq(ZScoreAt(location), Rational(n, 1))
                   /\ n \in {1, 2} => AlertsAt(location) = {}
                   /\ n = 3 =>
                         \E i \in AlertsAt(location) :
                             alerts[i].severity = "Medium" /\ alerts[i].risk_score = 600
                   /\ n >= 5 =>
                         \E i \in AlertsAt(location) :
                             alerts[i].severity = "High" /\ alerts[i].risk_score = 1000

\* a location without history and with exactly 3 current reports, alerted as Medium
C5_Witness ==
    /\ Done
    /\ \E location \in CurrentLocations :
          /\ ~DictHas(baseline_by_location, location)
          /\ CountAt(location) = 3
          /\ \E i \in AlertsAt(location) :
                alerts[i].severity = "Medium" /\ alerts[i].risk_score = 600

----------------------------------------------------------------------------
(* C6: when the daily counts of a location (at least two, as scored) are all equal
   to one value c, std_dev is 0 and is clamped to 1.0, so that z_score is exactly
   current_count - c; an alert then reports std_dev 1.0 and that z_score.  When
   they are not all equal, std_dev is the sample deviation itself, strictly
   positive and unclamped. *)
C6_ZeroDeviationClamped ==
    Done =>
        \A location \in CurrentLocations :
            LET daily_counts == DailyCountsAt(location)
                n == CountAt(location)
            IN /\ Len(daily_counts) >= 2
               /\ AllEqual(daily_counts) =>
                     /\ RealEq(Stdev(daily_counts), Rational(0, 1))
                     /\ RealEq(StdDev(daily_counts), Rational(1, 1))
                     /\ RealEq(ZScoreAt(location), Rational(n - daily_counts[1], 1))
                     /\ \A i \in AlertsAt(location) :
                           /\ alerts[i].debug.baseline_std_dev = 100
                           /\ alerts[i].debug.z_score = 100 * (n - daily_counts[1])
               /\ ~AllEqual(daily_counts) =>
                     /\ RealLess(Rational(0, 1), Stdev(daily_counts))
                     /\ StdDev(daily_counts) = Stdev(daily_counts)

\* seven baseline days of 2 reports and 10 current reports: z_score 8.0,
\* risk_score 100.0, severity High
C6_Witness ==
    /\ Done
    /\ \E location \in CurrentLocations :
          /\ DailyCountsAt(location) = <<2, 2, 2, 2, 2, 2, 2>>
          /\ CountAt(location) = 10
          /\ \E i \in AlertsAt(location) :
                /\ alerts[i].debug.z_score = 800
                /\ alerts[i].risk_score = 1000
                /\ alerts[i].severity = "High"

----------------------------------------------------------------------------
(* The severity tier and the risk_score a scoring gives a location, 0 without an
   alert, and the scoring of the run's aggregates after one more report *)

Tier(scored, location) ==
    IF \A i \in 1..Len(scored) : scored[i].location # location THEN 0
    ELSE LET a == scored[CHOOSE i \in 1..Len(scored) : scored[i].location = location]
         IN CASE a.severity = "Low" -> 1
              [] a.severity = "Medium" -> 2
              [] a.severity = "High" -> 3

RiskOf(scored, location) ==
    IF \A i \in 1..Len(scored) : scored[i].location # location THEN 0
    ELSE scored[CHOOSE i \in 1..Len(scored) : scored[i].location = location].risk_score

OneMoreReport(location) ==
    ScoreLocations(AddCurrent(current_by_location,
                              Report(location, now - 1, <<>>, "u1")),
                   baseline_by_location, now, <<>>)

(* C7: with the baseline reports of a location held fixed, one more current-window
   report for it strictly increases its z_score and lowers neither its risk_score
   nor its severity tier (none < Low < Medium < High): the run's result for the
   location is compared with the scoring of the same aggregates after one more
   report. *)
C7_Monotonic ==
    Done =>
        \A location \in CurrentLocations :
            LET more == OneMoreReport(location)
            IN /\ RealLess(ZScoreAt(location),
                           ZScore(CountAt(location) + 1, DailyCountsAt(location)))
               /\ Tier(alerts, location) <= Tier(more, location)
               /\ RiskOf(alerts, location) <= RiskOf(more, location)
               /\ AlertsAt(location) # {} => Tier(more, location) > 0

\* a location that one more report moves up: alerted as Low, and Medium with one more
C7_Witness ==
    /\ Done
    /\ \E location \in CurrentLocations :
          /\ Tier(alerts, location) = 1
          /\ Tier(OneMoreReport(location), location) = 2
          /\ RiskOf(alerts, location) < RiskOf(OneMoreReport(location), location)

----------------------------------------------------------------------------
(* The reports the current read returned for a location, in the order returned *)

CountedAt(location) == SelectSeq(current_reports, LAMBDA r : r.location = location)

(* C8: for every location of a finished run, current_count is the number of
   current-window reports of the location and the length of its undeduplicated
   list of user ids; every alert's affected_students is the number of distinct user
   ids among those reports, at least 1 and at most current_count. *)
C8_AffectedStudents ==
    Done =>
        /\ \A location \in CurrentLocations :
              /\ CountAt(location) = Len(CountedAt(location))
              /\ CountAt(location) = Len(DictGet(current_by_location, location).user_ids)
        /\ \A i \in 1..Len(alerts) :
              LET counted == CountedAt(alerts[i].location)
                  students == {counted[k].user_id : k \in 1..Len(counted)}
              IN /\ alerts[i].affected_students = Cardinality(students)
                 /\ 1 <= alerts[i].affected_students
                 /\ alerts[i].affected_students <= CountAt(alerts[i].location)
                 /\ alerts[i].debug.current_count = CountAt(alerts[i].location)

\* an alert for a location where one user reported more than once: fewer affected
\* students than reports, and more than one of them
C8_Witness ==
    /\ Done
    /\ \E i \in 1..Len(alerts) :
          /\ alerts[i].affected_students < CountAt(alerts[i].location)
          /\ alerts[i].affected_students > 1

----------------------------------------------------------------------------
(* Frequency and first appearance of a symptom in a list, and the concatenated
   symptom lists of the reports counted for a location *)

Occurrences(symptoms, x) == Cardinality({k \in 1..Len(symptoms) : symptoms[k] = x})

FirstSeen(symptoms, x) == CHOOSE k \in 1..Len(symptoms) :
    symptoms[k] = x /\ \A j \in 1..(k - 1) : symptoms[j] # x

ReportedSymptoms(location) ==
    LET counted == CountedAt(location)
    IN Flatten([k \in 1..Len(counted) |-> counted[k].symptoms])

(* C9: every alert's common_symptoms has min(3, number of distinct symptoms of the
   location's current-window reports) entries, all distinct and all from those
   reports, in order of non-increasing frequency over the concatenated symptom
   lists, equal frequencies in order of first appearance there; no symptom left
   out is more frequent than one that is in. *)
C9_CommonSymptoms ==
    Done =>
        \A i \in 1..Len(alerts) :
            LET symptoms == ReportedSymptoms(alerts[i].location)
                distinct == Range(symptoms)
                common == alerts[i].common_symptoms
            IN /\ Len(common) = IF Cardinality(distinct) < 3 THEN Cardinality(distinct) ELSE 3
               /\ Range(common) \subseteq distinct
               /\ \A j, k \in 1..Len(common) : j < k =>
                     /\ common[j] # common[k]
                     /\ \/ Occurrences(symptoms, common[j]) > Occurrences(symptoms, common[k])
                        \/ /\ Occurrences(symptoms, common[j]) = Occurrences(symptoms, common[k])
                           /\ FirstSeen(symptoms, common[j]) < FirstSeen(symptoms, common[k])
               /\ \A x \in distinct \ Range(common) : \A y \in Range(common) :
                     Occurrences(symptoms, x) <= Occurrences(symptoms, y)

\* an alert cut to 3 of at least 4 distinct symptoms, with a more frequent symptom
\* ahead of one seen earlier and two equally frequent ones in order of appearance
C9_Witness ==
    /\ Done
    /\ \E i \in 1..Len(alerts) :
          LET symptoms == ReportedSymptoms(alerts[i].location)
              common == alerts[i].common_symptoms
          IN /\ Cardinality(Range(symptoms)) >= 4
             /\ Len(common) = 3
             /\ FirstSeen(symptoms, common[1]) > FirstSeen(symptoms, common[2])
             /\ Occurrences(symptoms, common[2]) = Occurrences(symptoms, common[3])

----------------------------------------------------------------------------
(* The run took the same instant and read the same reports as the run before it *)

SameInputsAsBefore ==
    /\ prev # NoRun
    /\ prev[1].now = now
    /\ prev[1].baseline_reports = baseline_reports
    /\ prev[1].current_reports = current_reports

(* C10: detection is deterministic and stateless: a finished run that took the
   same `now` as the run before it and whose two reads returned the same reports
   (as they do against the same stored reports) has the same alerts in the same
   order, field by field; every alert of a run carries the run's `now` as its
   detection_time; and no step of a run changes the store. *)
C10_Deterministic ==
    /\ [](Done /\ SameInputsAsBefore => alerts = prev[1].alerts)
    /\ [](Done => \A i \in 1..Len(alerts) : alerts[i].detection_time = now)
    /\ [][Detect => store' = store]_vars

\* a second run on the same inputs as the first, with an alert to repeat
C10_Witness ==
    /\ Done
    /\ SameInputsAsBefore
    /\ alerts # <<>>
    /\ store # <<>>

----------------------------------------------------------------------------
(* The reports the current read returned for a location, and those of them that
   carry no symptom: the key is missing, the column is null or the list is empty *)

ReadAt(location) == SelectSeq(current_reports, LAMBDA r : r.location = location)

WithoutSymptoms(r) == r.symptoms_is # "list" \/ r.symptoms = <<>>

(* C11: missing symptom data never makes a detection run fail: no run ends in the
   TypeError of the aggregation, whatever rows the current read returned; and in a
   finished run every returned report, with or without symptoms, is in the count
   and among the user ids of its location, and a location none of whose reports
   carries a symptom has, when its z_score exceeds 2.0, an alert with an empty
   common_symptoms list. *)
C11_MissingSymptomsTolerated ==
    /\ pc # "type_error"
    /\ Done =>
          \A location \in CurrentLocations :
              LET read == ReadAt(location)
                  data == DictGet(current_by_location, location)
              IN /\ data.count = Len(read)
                 /\ data.user_ids = [i \in 1..Len(read) |-> read[i].user_id]
                 /\ (/\ \A i \in 1..Len(read) : WithoutSymptoms(read[i])
                     /\ RealLess(Rational(2, 1), ZScoreAt(location)))
                       => \E i \in AlertsAt(location) :
                             /\ alerts[i].common_symptoms = <<>>
                             /\ alerts[i].debug.current_count = Len(read)
                             /\ alerts[i].affected_students =
                                    Cardinality({read[k].user_id : k \in 1..Len(read)})

----------------------------------------------------------------------------
(* Both reads of the run have been answered: the baseline read with the store's
   baseline window, the current read with its rows out of the store as it was when
   the read was made *)

BothReadsAnswered ==
    /\ baseline_reports = BaselineQuery(store, now)
    /\ \E k \in 0..Len(store) :
          current_reports = CurrentQuery(SubSeq(store, 1, k), now)

ReadFailed == pc = "failed"

(* C12: a failed baseline or current read aborts the run: while the failure is
   under way no alert list and no aggregate exists and the current read that would
   follow a failed baseline read was not made; the run's next step is the answer
   of /alerts, which is HTTP 500 without a body and never an alert list, so no read
   is repeated or issued after the failure; and aggregation and scoring are
   reached only with both reads answered. *)
C12_ReadFailureAborts ==
    /\ [](pc \in {"compute", "done", "type_error"} => BothReadsAnswered)
    /\ [](ReadFailed => /\ alerts = <<>>
                        /\ baseline_by_location = <<>>
                        /\ current_by_location = <<>>
                        /\ current_reports = <<>>)
    /\ [][ReadFailed =>
             \/ /\ ReadFailed'
                /\ UNCHANGED <<now, baseline_reports, current_reports, alerts, response>>
             \/ /\ pc' = "idle"
                /\ response' = [status |-> 500, body |-> <<>>]]_vars

\* /alerts has answered 500 for a run whose reads met a store with reports in both
\* windows and without a null column: the failure was one of a read
C12_Witness ==
    /\ pc = "idle"
    /\ response.status = 500
    /\ \A i \in 1..Len(store) : ~SymptomsIsNone(store[i])
    /\ BaselineQuery(store, clock) # <<>>
    /\ CurrentQuery(store, clock) # <<>>

----------------------------------------------------------------------------
(* The baseline-window reports of a location, as the baseline read returned them,
   and the calendar days they fall on *)

BaselineAt(location) == SelectSeq(baseline_reports, LAMBDA r : r.location = location)

BaselineDates(location) ==
    {DateOf(BaselineAt(location)[i].created_at) : i \in 1..Len(BaselineAt(location))}

(* C13: a location all of whose baseline-window reports fall on one calendar day,
   however many they are, is scored against two zeros: mean 0, std_dev clamped to
   1.0 and z_score equal to its current count, and an alert reports these values;
   and every location is scored on at least two daily counts, so that
   statistics.stdev is never given fewer than 2 values. *)
C13_SingleBaselineDay ==
    Done =>
        \A location \in CurrentLocations :
            LET n == CountAt(location)
                daily_counts == DailyCountsAt(location)
            IN /\ Len(daily_counts) >= 2
               /\ Cardinality(BaselineDates(location)) = 1 =>
                     /\ daily_counts = <<0, 0>>
                     /\ RealEq(Mean(daily_counts), Rational(0, 1))
                     /\ RealEq(StdDev(daily_counts), Rational(1, 1))
                     /\ RealEq(ZScoreAt(location), Rational(n, 1))
                     /\ Cardinality(AlertsAt(location)) = IF n > 2 THEN 1 ELSE 0
                     /\ \A i \in AlertsAt(location) :
                           /\ alerts[i].debug.baseline_mean = 0
                           /\ alerts[i].debug.baseline_std_dev = 100
                           /\ alerts[i].debug.z_score = n * 100

\* a location whose single baseline day holds 4 reports and whose 3 current reports
\* bring an alert with z_score 3.0
C13_Witness ==
    /\ Done
    /\ \E location \in CurrentLocations :
          /\ Cardinality(BaselineDates(location)) = 1
          /\ Len(BaselineAt(location)) = 4
          /\ CountAt(location) = 3
          /\ \E i \in AlertsAt(location) : alerts[i].debug.z_score = 300

----------------------------------------------------------------------------
(* The locations of the baseline aggregate, and the stored reports of a location
   that lie in the baseline window [t - 14d, t - 7d) on a given date *)

BaselineLocations == {baseline_by_location[i].key : i \in 1..Len(baseline_by_location)}

InBaselineWindow(r, t) ==
    /\ t - Ticks(BASELINE_START_DAYS) <= r.created_at
    /\ r.created_at < t - Ticks(BASELINE_END_DAYS)

BaselineOn(location, date, t) ==
    {k \in 1..Len(store) : /\ store[k].location = location
                           /\ InBaselineWindow(store[k], t)
                           /\ DateOf(store[k].created_at) = date}

(* C14: in a finished run the baseline window is 7 calendar days of history: the
   per-date counts of every location of the baseline aggregate are at most 7, each
   is the number of stored reports of that location on that date with
   now - 14d <= created_at < now - 7d, and no stored report is both in the
   baseline window and among the reports of the current read. *)
C14_BaselineSevenDays ==
    Done =>
        /\ \A location \in BaselineLocations :
              LET days == DictGet(baseline_by_location, location)
              IN /\ Len(days) <= BASELINE_START_DAYS - BASELINE_END_DAYS
                 /\ \A i \in 1..Len(days) :
                       days[i].value =
                           Cardinality(BaselineOn(location, days[i].key, now))
        /\ \A k \in 1..Len(store) :
              ~(/\ InBaselineWindow(store[k], now)
                /\ CurrentQuery(<<store[k]>>, now) # <<>>)

====
